---- MODULE Spec2Model ----
(***************************************************************************)
(* The benchmark sweep orchestrator of tools/benchmarking/benchmark.py:    *)
(* distribute, distribute_over_gpus, compute_on_cpu, compute_on_gpu, sweep *)
(* and the hide_output decorator around get_single_model_metrics.          *)
(*                                                                         *)
(* Processes are <<"main", 0>> (the caller), <<"outer", k>> (workers of    *)
(* the two-worker pool of distribute) and <<"gpu", k>> (workers of the     *)
(* pool of distribute_over_gpus).  Lane 0 is the CPU lane; lane j >= 1 is  *)
(* the job submitted with device argument j.                               *)
(***************************************************************************)
EXTENDS Integers, Sequences, FiniteSets, TLC

\* ------------------------------------------------------------------ bounds
MaxGpus == 2
MaxCategories == 1
MaxSplitGpus == 4
MaxSplitConfigs == 8

\* --------------------------------------------------------------- constants
ModelNames == {"padim", "patchcore", "cflow"}
FixedResolutionFamilies == {"patchcore", "cflow"}
CanonicalInputSize == <<224, 224>>
InputSizes == {<<224, 224>>, <<256, 256>>}
Main == <<"main", 0>>
OuterWorkers == {<<"outer", 1>>, <<"outer", 2>>}
GpuWorkers(d) == {<<"gpu", k>> : k \in 1..d}
Procs == {Main} \cup OuterWorkers \cup GpuWorkers(MaxGpus)

\* ------------------------------------------------------------ pure helpers
NoDup(s) == \A a, b \in 1..Len(s) : a # b => s[a] # s[b]
ListsOver(S, lo, hi) == {s \in UNION {[1..k -> S] : k \in lo..hi} : NoDup(s)}

\* Variant: the chunk size rounded down instead of up.
CeilFloor(n, d) == n \div d

\* math.ceil(len(run_configs) / torch.cuda.device_count())
Ceil(n, d) == (n + d - 1) \div d

\* Variant: the candidate lists are zipped, not multiplied.
get_run_config_zip(grid) ==
    LET M == grid.model_name
        S == grid.input_size
        C == grid.category
        n == IF Len(M) = 0 \/ Len(C) = 0 THEN 0 ELSE 1
    IN  [k \in 1..n |->
           [model_name |-> M[k], input_size |-> S[k], category |-> C[k]]]

\* The cartesian product of the candidate lists, in declaration order
\* (model_name outermost, category innermost).
get_run_config(grid) ==
    LET M == grid.model_name
        S == grid.input_size
        C == grid.category
        n == Len(M) * Len(S) * Len(C)
    IN  [k \in 1..n |->
           [model_name |-> M[((k - 1) \div (Len(S) * Len(C))) + 1],
            input_size |-> S[(((k - 1) \div Len(C)) % Len(S)) + 1],
            category   |-> C[((k - 1) % Len(C)) + 1]]]

\* range(0, n, step) as the sequence of its values; a zero step is an error
\* in Python and is handled by the caller.
Range(n, step) == [k \in 1..((n + step - 1) \div step) |-> (k - 1) * step]

\* run_configs[a : b] (0-based, end exclusive, clamped to the length)
Slice(s, a, b) ==
    LET hi == IF b < Len(s) THEN b ELSE Len(s)
    IN  IF a >= hi THEN <<>> ELSE [k \in 1..(hi - a) |-> s[a + k]]

RECURSIVE Concat(_, _)
Concat(f, ids) ==
    IF ids = <<>> THEN <<>> ELSE f[Head(ids)] \o Concat(f, Tail(ids))

Error(kind, msg, job, cause) ==
    [kind |-> kind, msg |-> msg, job |-> job, cause |-> cause]

VARIABLES config, device_count, dist, dog, lanes, stdout, console, uploads

vars == <<config, device_count, dist, dog, lanes, stdout, console, uploads>>

\* ------------------------------------------------- get_single_model_metrics
\* The blocks of one run, in order: "fit" is lines 98-112 (working
\* directory, data module, model, trainer, training), "test" is lines 115-124
\* (testing, meta data, torch throughput), "export" is lines 127-135 and
\* exists only when openvino_metrics is set.
Steps(openvino_metrics) ==
    <<"fit", "test">> \o (IF openvino_metrics THEN <<"export">> ELSE <<>>)

\* Variant: the working directory is made with mkdtemp and removed by the
\* last statement of the body, which a failing step never reaches.
get_single_model_metrics_mkdtemp(openvino_metrics, failAt) ==
    LET steps == Steps(openvino_metrics)
        ran   == IF failAt = 0 THEN steps ELSE SubSeq(steps, 1, failAt)
    IN  [ran    |-> ran,
         out    |-> ran,
         project_path |-> IF failAt = 0 THEN "removed" ELSE "exists",
         raised |-> IF failAt = 0 THEN <<>>
                    ELSE <<Error("StepError", <<steps[failAt]>>, 0, <<>>)>>,
         value  |-> IF failAt = 0
                    THEN <<[openvino_throughput |->
                              IF openvino_metrics THEN "measured" ELSE "nan"]>>
                    ELSE <<>>]

\* The undecorated body: it runs its steps in order, each printing a line,
\* and raises at step failAt (0: no step fails).  All steps run inside
\* `with TemporaryDirectory() as project_path` (line 98), whose exit removes
\* the directory both when the body returns and when a step raises.
get_single_model_metrics(openvino_metrics, failAt) ==
    LET steps == Steps(openvino_metrics)
        ran   == IF failAt = 0 THEN steps ELSE SubSeq(steps, 1, failAt)
    IN  [ran    |-> ran,
         out    |-> ran,
         project_path |-> "removed",
         raised |-> IF failAt = 0 THEN <<>>
                    ELSE <<Error("StepError", <<steps[failAt]>>, 0, <<>>)>>,
         value  |-> IF failAt = 0
                    THEN <<[openvino_throughput |->
                              IF openvino_metrics THEN "measured" ELSE "nan"]>>
                    ELSE <<>>]

\* ------------------------------------------------------------- hide_output
\* A sink is "orig" (the sink the process started with), "new" (the StringIO
\* of the call in progress) or "buf" (the StringIO of an earlier call).
Emit(io, lines) ==
    IF io.stdout = "new" THEN [io EXCEPT !.buf = @ \o lines]
    ELSE IF io.stdout = "orig" THEN [io EXCEPT !.console = @ \o lines]
    ELSE io

\* Variant: sys.stdout is saved but never redirected to the buffer.
hide_output_unredirected(sys_stdout, call) ==
    LET std_out == sys_stdout
        io0 == [stdout |-> std_out, buf |-> <<>>, console |-> <<>>]
        io1 == Emit(io0, call.out)
    IN  IF call.raised # <<>>
        THEN [stdout  |-> std_out,
              console |-> io1.console,
              raised  |-> <<Error("Exception", io1.buf, 0, call.raised)>>,
              value   |-> <<>>]
        ELSE [stdout  |-> std_out,
              console |-> io1.console,
              raised  |-> <<>>,
              value   |-> call.value]

hide_output(sys_stdout, call) ==
    LET std_out == sys_stdout
        io0 == [stdout |-> "new", buf |-> <<>>, console |-> <<>>]
        io1 == Emit(io0, call.out)
    IN  IF call.raised # <<>>
        THEN [stdout  |-> "buf",
              console |-> io1.console,
              raised  |-> <<Error("Exception", io1.buf, 0, call.raised)>>,
              value   |-> <<>>]
        ELSE [stdout  |-> std_out,
              console |-> io1.console,
              raised  |-> <<>>,
              value   |-> call.value]

\* ------------------------------------------------------------------- sweep
\* Variant: a fixed-resolution family is skipped at every resolution.
IsSkippedAnyResolution(run_config) ==
    run_config.model_name \in FixedResolutionFamilies

\* Line 276-280: a fixed-resolution family at a non-canonical resolution.
IsSkipped(run_config) ==
    /\ run_config.model_name \in FixedResolutionFamilies
    /\ run_config.input_size # CanonicalInputSize

\* Variant: the requested export flag is passed through unchanged.
OpenvinoFlagKept(run_config, convert_openvino) == convert_openvino

\* Line 276-277: export is switched off for the fixed-resolution families.
OpenvinoFlag(run_config, convert_openvino) ==
    IF run_config.model_name \in FixedResolutionFamilies
    THEN FALSE ELSE convert_openvino

\* Variant: the label test off by one, so that device 0 is labelled gpu.
DeviceLabelFromZero(device) == IF device >= 0 THEN "gpu" ELSE "cpu"

\* Line 296: the device label of the record.
DeviceLabel(device) == IF device > 0 THEN "gpu" ELSE "cpu"

\* Line 254: the trainer section of the base configuration of a model, as
\* get_configurable_parameters loads it.  devices = <<>> stands for a base
\* entry that names no device; the three models cover a base configuration
\* with two, with all four and with none of the legacy device flags.
BaseTrainer(model_name) ==
    IF model_name = "padim"
    THEN [accelerator |-> "auto", devices |-> <<>>,
          gpus |-> "1", num_processes |-> "1"]
    ELSE IF model_name = "patchcore"
    THEN [accelerator |-> "auto", devices |-> <<>>,
          gpus |-> "1", num_processes |-> "1", ipus |-> "1", tpu_cores |-> "1"]
    ELSE [accelerator |-> "auto", devices |-> <<>>]

\* Line 265-269: 0 is the CPU, device k > 0 is GPU index k - 1.
SetDevice(trainer, device) ==
    IF device # 0
    THEN [trainer EXCEPT !.devices = <<device - 1>>, !.accelerator = "gpu"]
    ELSE [trainer EXCEPT !.accelerator = "cpu"]

LegacyDeviceFlags == {"num_processes", "gpus", "ipus", "tpu_cores"}

\* Variant: only the gpus flag is cleared.
ClearLegacyGpusOnly(trainer) ==
    [key \in DOMAIN trainer |->
       IF key = "gpus" THEN "None" ELSE trainer[key]]

\* Line 272-274: every legacy flag that is present is set to None.
ClearLegacy(trainer) ==
    [key \in DOMAIN trainer |->
       IF key \in LegacyDeviceFlags THEN "None" ELSE trainer[key]]

sweep(run_config, device, convert_openvino, sys_stdout, failAt) ==
    LET trainer == ClearLegacy(SetDevice(BaseTrainer(run_config.model_name), device))
        openvino == OpenvinoFlag(run_config, convert_openvino)
    IN  IF IsSkipped(run_config)
        THEN [invoked |-> <<>>, stdout |-> sys_stdout, console |-> <<>>,
              raised |-> <<>>, value |-> << <<>> >>]
        ELSE LET call == get_single_model_metrics(openvino, failAt)
                 h    == hide_output(sys_stdout, call)
             IN  [invoked |-> <<[run_config |-> run_config, trainer |-> trainer,
                                 openvino_metrics |-> openvino, ran |-> call.ran,
                                 project_path |-> call.project_path]>>,
                  stdout  |-> h.stdout,
                  console |-> h.console,
                  raised  |-> h.raised,
                  value   |-> IF h.raised # <<>> THEN <<>>
                              ELSE <<[openvino_throughput |-> h.value[1].openvino_throughput,
                                      input_size |-> run_config.input_size,
                                      category   |-> run_config.category,
                                      device     |-> DeviceLabel(device),
                                      model_name |-> run_config.model_name]>>]

\* ------------------------------------------------------------------- lanes
NewLane(run_configs, device, compute_openvino) ==
    [run_configs |-> run_configs, device |-> device,
     compute_openvino |-> compute_openvino,
     status |-> "pending", proc |-> <<>>, i |-> 0, res |-> <<>>,
     swept |-> <<>>, runs |-> <<>>, written |-> <<>>, exc |-> <<>>]

\* The lane starts running in process p; a lane with nothing to do returns.
StartLane(lane, p) ==
    [lane EXCEPT !.proc = p,
                 !.status = IF lane.run_configs = <<>> THEN "done" ELSE "running"]

Finished(lane) == lane.status \in {"done", "failed"}

GpuLaneIds == DOMAIN lanes \ {0}

\* Variant: the CPU lane takes only the first chunk of the grid, as one GPU
\* lane would.
compute_on_cpu_first_chunk(sweep_config) ==
    NewLane(Slice(get_run_config(sweep_config.grid_search), 0, 1), 0, FALSE)

\* Variant: the CPU lane passes the export flag of the sweep configuration
\* on to sweep, as the GPU lanes do.
compute_on_cpu_with_export(sweep_config) ==
    NewLane(get_run_config(sweep_config.grid_search), 0,
            sweep_config.compute_openvino)

\* Line 152-153: the CPU lane enumerates the whole grid itself, with device 0
\* and without export.
compute_on_cpu(sweep_config) ==
    NewLane(get_run_config(sweep_config.grid_search), 0, FALSE)

\* Variant: the slice end is inclusive, so neighbouring slices overlap.
RunSplitInclusive(run_configs, run_split, chunk) ==
    Slice(run_configs, run_split, run_split + chunk + 1)

\* Line 196: the slice of the job that starts at run_split.
RunSplit(run_configs, run_split, chunk) ==
    Slice(run_configs, run_split, run_split + chunk)

\* Variant: every job is given the first GPU.
DeviceArgFirstGpu(device_id) == 1

\* Variant: the enumerate index is passed as it is.
DeviceArgZeroBased(device_id) == device_id

\* Line 197: the device argument of the job with index device_id.
DeviceArg(device_id) == device_id + 1

\* -------------------------------------------------------------------- Init
HardwareSets == SUBSET {"cpu", "gpu"}
WriterSets == {{"csv"}, {"csv", "wandb"}}
Categories(c) == [k \in 1..c |-> k]

Grids ==
    [model_name : ListsOver(ModelNames, 0, 1),
     input_size : ListsOver(InputSizes, 1, 2),
     category   : {Categories(c) : c \in 1..MaxCategories}]

\* The state at the call of distribute (line 313): the opening banner of
\* line 311 has been printed, nothing else has happened.
InitState ==
    /\ dist = [pc |-> "start", yielded |-> {}, warned |-> FALSE, err |-> <<>>,
               banner |-> <<"started">>]
    /\ dog = [pc |-> "idle", proc |-> <<>>, run_configs |-> <<>>, k |-> 0,
              err |-> <<>>]
    /\ lanes = <<>>
    /\ stdout = [p \in Procs |-> "orig"]
    /\ console = [p \in Procs |-> <<>>]
    /\ uploads = 0

Init ==
    /\ config \in [grid_search : Grids, hardware : HardwareSets,
                   writer : WriterSets, compute_openvino : BOOLEAN]
    /\ device_count \in 0..MaxGpus
    /\ InitState

\* ---------------------------------------------------- distribute_over_gpus
\* Entering the function in process p: the pool is created, the run
\* configurations are generated and the range of the split loop is built;
\* range() with a zero step raises ValueError inside the with block.
DogEnter(p) ==
    LET run_configs == get_run_config(config.grid_search)
    IN  IF Ceil(Len(run_configs), device_count) = 0
        THEN [pc |-> "shutdown", proc |-> p, run_configs |-> run_configs, k |-> 0,
              err |-> <<Error("ValueError", <<"range() arg 3 must not be zero">>, 0, <<>>)>>]
        ELSE [pc |-> "submit", proc |-> p, run_configs |-> run_configs, k |-> 0,
              err |-> <<>>]

\* One iteration of the submit loop: the next slice goes to a new job with
\* device argument device_id + 1.  After the last one the await loop starts.
DogSubmit ==
    /\ dog.pc = "submit"
    /\ LET n == Len(dog.run_configs)
           chunk == Ceil(n, device_count)
           splits == Range(n, chunk)
           device_id == dog.k
           run_split == splits[device_id + 1]
       IN  /\ lanes' = lanes @@
                 ((device_id + 1) :>
                    NewLane(RunSplit(dog.run_configs, run_split, chunk),
                            DeviceArg(device_id), config.compute_openvino))
           /\ dog' = IF device_id + 1 = Len(splits)
                     THEN [dog EXCEPT !.pc = "await", !.k = 0]
                     ELSE [dog EXCEPT !.k = device_id + 1]
    /\ UNCHANGED <<config, device_count, dist, stdout, console, uploads>>

\* job.result() for the next job in launch order, once that job has ended.
DogAwait ==
    /\ dog.pc = "await"
    /\ LET j == dog.k + 1
       IN  /\ Finished(lanes[j])
           /\ dog' = IF lanes[j].status = "failed"
                     THEN [dog EXCEPT !.pc = "shutdown",
                             !.err = <<Error("Exception", <<"GPU">>, j, lanes[j].exc)>>]
                     ELSE IF j = Cardinality(GpuLaneIds)
                          THEN [dog EXCEPT !.pc = "shutdown"]
                          ELSE [dog EXCEPT !.k = j]
    /\ UNCHANGED <<config, device_count, dist, lanes, stdout, console, uploads>>

\* Variant: the error leaves the with block without waiting for the jobs
\* that are still pending or running.
DogExitNoWait ==
    /\ dog.pc = "shutdown"
    /\ dog' = [dog EXCEPT !.pc = IF dog.err = <<>> THEN "returned" ELSE "raised"]
    /\ UNCHANGED <<config, device_count, dist, lanes, stdout, console, uploads>>

\* Leaving the with block: the pool is shut down with wait=True, so the
\* function returns or raises only once every submitted job has ended.
DogExit ==
    /\ dog.pc = "shutdown"
    /\ \A j \in GpuLaneIds : Finished(lanes[j])
    /\ dog' = [dog EXCEPT !.pc = IF dog.err = <<>> THEN "returned" ELSE "raised"]
    /\ UNCHANGED <<config, device_count, dist, lanes, stdout, console, uploads>>

\* ------------------------------------------------------------ process pools
Busy(w) ==
    \/ \E j \in DOMAIN lanes : lanes[j].status = "running" /\ lanes[j].proc = w
    \/ dog.proc = w /\ dog.pc \in {"submit", "await", "shutdown"}

\* An idle worker of the pool of distribute_over_gpus takes the oldest
\* pending job.
GpuWorkerTake(w) ==
    /\ w \in GpuWorkers(device_count)
    /\ ~Busy(w)
    /\ \E j \in GpuLaneIds :
          /\ lanes[j].status = "pending"
          /\ \A h \in GpuLaneIds : h < j => lanes[h].status # "pending"
          /\ lanes' = [lanes EXCEPT ![j] = StartLane(@, w)]
    /\ UNCHANGED <<config, device_count, dist, dog, stdout, console, uploads>>

\* An idle worker of the pool of distribute takes the oldest pending job:
\* compute_on_cpu was submitted first, distribute_over_gpus second.
OuterWorkerTake(w) ==
    /\ w \in OuterWorkers
    /\ ~Busy(w)
    /\ \/ /\ 0 \in DOMAIN lanes
          /\ lanes[0].status = "pending"
          /\ lanes' = [lanes EXCEPT ![0] = StartLane(@, w)]
          /\ UNCHANGED dog
       \/ /\ dog.pc = "pending"
          /\ lanes[0].status # "pending"
          /\ dog' = DogEnter(w)
          /\ UNCHANGED lanes
    /\ UNCHANGED <<config, device_count, dist, stdout, console, uploads>>

\* ------------------------------------------- compute_on_cpu / compute_on_gpu
\* The first half of a loop iteration: sweep(run_config, device, seed, ...).
LaneSweep(j) ==
    /\ j \in DOMAIN lanes
    /\ lanes[j].status = "running"
    /\ lanes[j].res = <<>>
    /\ LET lane == lanes[j]
           p == lane.proc
           run_config == lane.run_configs[lane.i + 1]
       IN  \E failAt \in 0..Len(Steps(OpenvinoFlag(run_config, lane.compute_openvino))) :
              LET r == sweep(run_config, lane.device, lane.compute_openvino,
                             stdout[p], failAt)
              IN  /\ lanes' = [lanes EXCEPT ![j] =
                        IF r.raised # <<>>
                        THEN [@ EXCEPT !.status = "failed", !.exc = r.raised,
                                       !.swept = Append(@, run_config),
                                       !.runs = @ \o r.invoked]
                        ELSE [@ EXCEPT !.res = r.value,
                                       !.swept = Append(@, run_config),
                                       !.runs = @ \o r.invoked]]
                  /\ stdout' = [stdout EXCEPT ![p] = r.stdout]
                  /\ console' = [console EXCEPT ![p] = @ \o r.console]
    /\ UNCHANGED <<config, device_count, dist, dog, uploads>>

\* Variant: the records are held back and only the last one of the lane is
\* written.
LaneWriteDeferred(j) ==
    /\ j \in DOMAIN lanes
    /\ lanes[j].status = "running"
    /\ lanes[j].res # <<>>
    /\ lanes' = [lanes EXCEPT ![j] =
          [@ EXCEPT !.written = IF lanes[j].i + 1 = Len(lanes[j].run_configs)
                                THEN @ \o lanes[j].res ELSE @,
                    !.res = <<>>,
                    !.i = @ + 1,
                    !.status = IF lanes[j].i + 1 = Len(lanes[j].run_configs)
                               THEN "done" ELSE "running"]]
    /\ UNCHANGED <<config, device_count, dist, dog, stdout, console, uploads>>

\* The second half: write_metrics(model_metrics, writers); after the last
\* run configuration the function returns.
LaneWrite(j) ==
    /\ j \in DOMAIN lanes
    /\ lanes[j].status = "running"
    /\ lanes[j].res # <<>>
    /\ lanes' = [lanes EXCEPT ![j] =
          [@ EXCEPT !.written = @ \o lanes[j].res,
                    !.res = <<>>,
                    !.i = @ + 1,
                    !.status = IF lanes[j].i + 1 = Len(lanes[j].run_configs)
                               THEN "done" ELSE "running"]]
    /\ UNCHANGED <<config, device_count, dist, dog, stdout, console, uploads>>

\* -------------------------------------------------------------- distribute
\* Lines 217-232: the branch on the requested hardware.
DistributeStart ==
    /\ dist.pc = "start"
    /\ LET devices == config.hardware
           cpu_lane == compute_on_cpu(config)
       IN  IF device_count = 0 /\ "gpu" \in devices
           THEN /\ dist' = [dist EXCEPT !.pc = "upload", !.warned = TRUE]
                /\ UNCHANGED <<lanes, dog>>
           ELSE IF {"cpu", "gpu"} \subseteq devices
           THEN /\ dist' = [dist EXCEPT !.pc = "await"]
                /\ lanes' = (0 :> cpu_lane)
                /\ dog' = [dog EXCEPT !.pc = "pending"]
           ELSE IF "cpu" \in devices
           THEN /\ dist' = [dist EXCEPT !.pc = "cpu"]
                /\ lanes' = (0 :> StartLane(cpu_lane, Main))
                /\ UNCHANGED dog
           ELSE IF "gpu" \in devices
           THEN /\ dist' = [dist EXCEPT !.pc = "gpu"]
                /\ dog' = DogEnter(Main)
                /\ UNCHANGED lanes
           ELSE /\ dist' = [dist EXCEPT !.pc = "upload"]
                /\ UNCHANGED <<lanes, dog>>
    /\ UNCHANGED <<config, device_count, stdout, console, uploads>>

\* compute_on_cpu(config) or distribute_over_gpus(config), called in the
\* caller's process, returns or raises.
DistributeInlineEnd ==
    /\ \/ /\ dist.pc = "cpu"
          /\ Finished(lanes[0])
          /\ dist' = IF lanes[0].status = "failed"
                     THEN [dist EXCEPT !.pc = "raised", !.err = lanes[0].exc]
                     ELSE [dist EXCEPT !.pc = "upload"]
       \/ /\ dist.pc = "gpu"
          /\ dog.pc \in {"returned", "raised"}
          /\ dist' = IF dog.pc = "raised"
                     THEN [dist EXCEPT !.pc = "raised", !.err = dog.err]
                     ELSE [dist EXCEPT !.pc = "upload"]
    /\ UNCHANGED <<config, device_count, dog, lanes, stdout, console, uploads>>

OuterDone(job) ==
    IF job = "cpu" THEN Finished(lanes[0]) ELSE dog.pc \in {"returned", "raised"}
OuterExc(job) ==
    IF job = "cpu" THEN lanes[0].exc
    ELSE IF dog.pc = "raised" THEN dog.err ELSE <<>>

\* as_completed(jobs): the next job that has ended is yielded and its
\* result taken.
DistributeAwait ==
    /\ dist.pc = "await"
    /\ \E job \in {"cpu", "gpu"} \ dist.yielded :
          /\ OuterDone(job)
          /\ dist' = IF OuterExc(job) # <<>>
                     THEN [dist EXCEPT !.pc = "shutdown", !.yielded = @ \cup {job},
                             !.err = <<Error("Exception", <<"device", job>>, 0, OuterExc(job))>>]
                     ELSE IF dist.yielded \cup {job} = {"cpu", "gpu"}
                          THEN [dist EXCEPT !.pc = "upload", !.yielded = @ \cup {job}]
                          ELSE [dist EXCEPT !.yielded = @ \cup {job}]
    /\ UNCHANGED <<config, device_count, dog, lanes, stdout, console, uploads>>

\* The with block of distribute is left with an error: shutdown waits for
\* both jobs, then the error propagates.
DistributeShutdown ==
    /\ dist.pc = "shutdown"
    /\ OuterDone("cpu") /\ OuterDone("gpu")
    /\ dist' = [dist EXCEPT !.pc = "raised"]
    /\ UNCHANGED <<config, device_count, dog, lanes, stdout, console, uploads>>

\* Variant: distribute returns right after the warning of line 219, so
\* nothing is uploaded when no GPU is available.
DistributeUploadUnlessWarned ==
    /\ dist.pc = "upload"
    /\ uploads' = IF "wandb" \in config.writer /\ ~dist.warned
                  THEN uploads + 1 ELSE uploads
    /\ dist' = [dist EXCEPT !.pc = "returned"]
    /\ UNCHANGED <<config, device_count, dog, lanes, stdout, console>>

\* Variant: the upload is not guarded by the writer list.
DistributeUploadAlways ==
    /\ dist.pc = "upload"
    /\ uploads' = uploads + 1
    /\ dist' = [dist EXCEPT !.pc = "returned"]
    /\ UNCHANGED <<config, device_count, dog, lanes, stdout, console>>

\* Lines 233-234: upload_to_wandb if "wandb" is among the writers, then
\* distribute returns.
DistributeUpload ==
    /\ dist.pc = "upload"
    /\ uploads' = IF "wandb" \in config.writer THEN uploads + 1 ELSE uploads
    /\ dist' = [dist EXCEPT !.pc = "returned"]
    /\ UNCHANGED <<config, device_count, dog, lanes, stdout, console>>

\* Line 314: after distribute has returned, the closing banner is printed.
MainFinished ==
    /\ dist.pc = "returned"
    /\ dist' = [dist EXCEPT !.pc = "finished", !.banner = Append(@, "finished")]
    /\ UNCHANGED <<config, device_count, dog, lanes, stdout, console, uploads>>

Next ==
    \/ DistributeStart
    \/ DistributeInlineEnd
    \/ DistributeAwait
    \/ DistributeShutdown
    \/ DistributeUpload
    \/ MainFinished
    \/ DogSubmit
    \/ DogAwait
    \/ DogExit
    \/ \E w \in OuterWorkers : OuterWorkerTake(w)
    \/ \E w \in GpuWorkers(MaxGpus) : GpuWorkerTake(w)
    \/ \E j \in 0..MaxGpus : LaneSweep(j)
    \/ \E j \in 0..MaxGpus : LaneWrite(j)

Spec == Init /\ [][Next]_vars

\* --------------------------------------- the split of distribute_over_gpus
\* The submit loop on its own, for every length of the generated sequence
\* up to MaxSplitConfigs and every device count from 1 to MaxSplitGpus.
InitGpuSplit ==
    /\ config \in [grid_search : [model_name : {<<"padim">>},
                                  input_size : {<<CanonicalInputSize>>},
                                  category : {Categories(c) : c \in 0..MaxSplitConfigs}],
                   hardware : {{"gpu"}}, writer : {{"csv"}},
                   compute_openvino : BOOLEAN]
    /\ device_count \in 1..MaxSplitGpus
    /\ InitState

NextGpuSplit ==
    \/ DistributeStart
    \/ DogSubmit
    \/ DogExit
    \/ DistributeInlineEnd

SpecGpuSplit == InitGpuSplit /\ [][NextGpuSplit]_vars

\* ================================================================== claims
Generated == get_run_config(config.grid_search)
SubmitsDone == dog.pc \in {"await", "shutdown", "returned", "raised"}
Elems(s) == {s[k] : k \in 1..Len(s)}
SizeOf(j) == Len(lanes[j].run_configs)
GpuSlices == [j \in GpuLaneIds |-> lanes[j].run_configs]
InLaunchOrder == [j \in 1..Cardinality(GpuLaneIds) |-> j]
\* A fixed-resolution family at a resolution other than (224, 224).
SkipCase(cfg) ==
    cfg.model_name \in {"patchcore", "cflow"} /\ cfg.input_size # <<224, 224>>
\* rec is what a run of cfg returns: the empty record for a skipped
\* configuration, a record that carries the grid values of cfg otherwise.
RecordOf(rec, cfg) ==
    IF rec = <<>> THEN SkipCase(cfg)
    ELSE /\ ~SkipCase(cfg)
         /\ rec.model_name = cfg.model_name
         /\ rec.input_size = cfg.input_size
         /\ rec.category = cfg.category
NonEmpty(rec) == rec # <<>>

\* C1, as stated: once the submit loop has run to its end there are exactly
\* device_count lanes and the sizes of any two of them differ by at most 1.
C1_ExactlyDLanesNearEqual ==
    (SubmitsDone /\ dog.err = <<>>) =>
        /\ Cardinality(GpuLaneIds) = device_count
        /\ \A a, b \in GpuLaneIds : SizeOf(a) - SizeOf(b) <= 1

\* C1, amended: with n >= 1 run configurations and c = ceil(n / d) there are
\* ceil(n / c) lanes, at most d; every lane but the last holds c run
\* configurations and the last holds between 1 and c.  With n = 0 no lane is
\* submitted and the call raises ValueError.
C1_ChunkedLanes ==
    SubmitsDone =>
        LET n == Len(Generated)
            c == (n + device_count - 1) \div device_count
        IN  IF n = 0
            THEN /\ GpuLaneIds = {}
                 /\ dog.err # <<>>
                 /\ dog.err[1].kind = "ValueError"
            ELSE /\ GpuLaneIds = 1..((n + c - 1) \div c)
                 /\ Cardinality(GpuLaneIds) <= device_count
                 /\ \A j \in GpuLaneIds :
                       IF j < Cardinality(GpuLaneIds)
                       THEN SizeOf(j) = c
                       ELSE SizeOf(j) \in 1..c

\* C1 witness: 5 run configurations on 4 devices end in 3 lanes.
C1_Witness ==
    /\ SubmitsDone
    /\ Len(Generated) = 5
    /\ device_count = 4
    /\ Cardinality(GpuLaneIds) = 3

\* C2: once the submit loop is over, the slices in launch order concatenate
\* to the generated sequence, each slice is a contiguous stretch of it and
\* every run configuration sits in exactly one slice.
C2_SlicesPartition ==
    SubmitsDone =>
        /\ Concat(GpuSlices, InLaunchOrder) = Generated
        /\ \A j \in GpuLaneIds :
              \E a \in 1..Len(Generated) :
                 lanes[j].run_configs = SubSeq(Generated, a, a + SizeOf(j) - 1)
        /\ \A k \in 1..Len(Generated) :
              Cardinality({j \in GpuLaneIds : Generated[k] \in Elems(lanes[j].run_configs)}) = 1

\* C2 witness: 8 run configurations split over 3 lanes.
C2_Witness ==
    /\ SubmitsDone
    /\ Len(Generated) = 8
    /\ Cardinality(GpuLaneIds) = 3

\* C3, as stated: in every hardware mode (cpu only, gpu only, cpu and gpu
\* with a GPU available) no run configuration is assigned to two lanes, and
\* when all lanes have completed the union of the lanes' run configurations
\* is the generated set.
C3_NoSharedRunConfig ==
    (config.hardware # {} /\ ~("gpu" \in config.hardware /\ device_count = 0)) =>
        /\ \A a, b \in DOMAIN lanes :
              a # b => Elems(lanes[a].run_configs) \cap Elems(lanes[b].run_configs) = {}
        /\ dist.pc \in {"upload", "returned", "finished"} =>
              UNION {Elems(lanes[j].run_configs) : j \in DOMAIN lanes} = Elems(Generated)

\* C3, amended: the GPU lanes are pairwise disjoint and, once submitted,
\* concatenate to the generated sequence; the CPU lane, when there is one,
\* holds the whole generated sequence, also when GPU lanes exist (so with cpu
\* and gpu both requested every run configuration is in the CPU lane and in
\* one GPU lane); a CPU lane exists iff cpu is requested and it is not the
\* case that gpu is requested without a GPU; GPU lanes are submitted iff gpu
\* is requested and a GPU is available.
C3_LanesPerDeviceClass ==
    /\ \A a, b \in GpuLaneIds :
          a # b => Elems(lanes[a].run_configs) \cap Elems(lanes[b].run_configs) = {}
    /\ 0 \in DOMAIN lanes => lanes[0].run_configs = Generated
    /\ SubmitsDone => Concat(GpuSlices, InLaunchOrder) = Generated
    /\ dist.pc # "start" =>
          /\ 0 \in DOMAIN lanes <=>
                /\ "cpu" \in config.hardware
                /\ ~("gpu" \in config.hardware /\ device_count = 0)
          /\ dog.pc # "idle" <=> ("gpu" \in config.hardware /\ device_count > 0)
    /\ dog.pc = "idle" => GpuLaneIds = {}

\* C3 witness: cpu and gpu requested, two devices, two run configurations:
\* the CPU lane and two GPU lanes exist.
C3_Witness ==
    /\ config.hardware = {"cpu", "gpu"}
    /\ SubmitsDone
    /\ DOMAIN lanes = {0, 1, 2}
    /\ Len(Generated) = 2

\* C4: whenever no wrapped call is in progress, sys.stdout of every process
\* is the sink it started with, after successful and after failing calls.
C4_StdoutRestored == \A p \in Procs : stdout[p] = "orig"

\* C5: a failed run leaves an Exception whose message is the lines printed
\* up to the failure, in order, and whose cause is the error of the failing
\* block; nothing printed under the wrapper reaches the original sink; the
\* value of a successful run is the one the wrapped function returned.
C5_CaptureAndChain ==
    /\ \A p \in Procs : console[p] = <<>>
    /\ \A j \in DOMAIN lanes :
          LET lane == lanes[j]
              recs == SelectSeq(lane.written \o lane.res, NonEmpty)
          IN  /\ lane.status = "failed" =>
                    LET e == lane.exc[1]
                        run == lane.runs[Len(lane.runs)]
                    IN  /\ e.kind = "Exception"
                        /\ e.msg = run.ran
                        /\ Len(e.cause) = 1
                        /\ e.cause[1].kind = "StepError"
                        /\ e.cause[1].msg = <<run.ran[Len(run.ran)]>>
              /\ \A k \in 1..Len(recs) :
                    recs[k].openvino_throughput =
                       IF "export" \in Elems(lane.runs[k].ran) THEN "measured" ELSE "nan"

\* C5 witness: a lane wrote one record and then failed in the export block,
\* after three lines were printed.
C5_Witness ==
    \E j \in DOMAIN lanes :
       /\ lanes[j].status = "failed"
       /\ lanes[j].exc[1].msg = <<"fit", "test", "export">>
       /\ Len(lanes[j].written) = 1
       /\ lanes[j].written[1] # <<>>

\* C6: lane i (0-based) has device argument i + 1 and the run configurations
\* at positions [i*c, min((i+1)*c, n)) with c = ceil(n / d); 7 run
\* configurations on 3 devices give 3 lanes of sizes 3, 3, 1.
C6_CeilChunks ==
    SubmitsDone =>
        LET n == Len(Generated)
            c == (n + device_count - 1) \div device_count
        IN  /\ \A j \in GpuLaneIds :
                  LET i == j - 1
                      hi == IF (i + 1) * c < n THEN (i + 1) * c ELSE n
                  IN  /\ lanes[j].device = i + 1
                      /\ lanes[j].run_configs = [k \in 1..(hi - i * c) |-> Generated[i * c + k]]
            /\ (n = 7 /\ device_count = 3) =>
                  /\ GpuLaneIds = {1, 2, 3}
                  /\ <<SizeOf(1), SizeOf(2), SizeOf(3)>> = <<3, 3, 1>>

\* C6 witness: the stated case, after the third submit.
C6_Witness ==
    /\ SubmitsDone
    /\ Len(Generated) = 7
    /\ device_count = 3
    /\ GpuLaneIds = {1, 2, 3}
    /\ SizeOf(3) = 1

\* C7: in every lane the run configurations are swept in the assigned
\* order, each record is written before the next run configuration is
\* swept (at most one swept run configuration has no record yet), the
\* records are those of the first run configurations in order; a lane that
\* failed at its k-th run configuration has written exactly k - 1 records,
\* and a failed lane never changes again (nothing is retried or resumed).
C7_LaneProgress ==
    \A j \in DOMAIN lanes :
       LET lane == lanes[j]
       IN  /\ Len(lane.swept) <= Len(lane.run_configs)
           /\ lane.swept = SubSeq(lane.run_configs, 1, Len(lane.swept))
           /\ Len(lane.written) <= Len(lane.swept)
           /\ Len(lane.swept) - Len(lane.written) <= 1
           /\ \A k \in 1..Len(lane.written) :
                 RecordOf(lane.written[k], lane.run_configs[k])
           /\ lane.status = "failed" => Len(lane.written) = Len(lane.swept) - 1
           /\ lane.status = "done" => Len(lane.written) = Len(lane.run_configs)

C7_LaneAbandoned ==
    \A j \in DOMAIN lanes : lanes[j].status = "failed" => lanes'[j] = lanes[j]

C7_ImmediateInOrder == [](C7_LaneProgress) /\ [][C7_LaneAbandoned]_vars

\* C7 witness: one lane failed at its first run configuration with the
\* second never swept, another failed at its second with the first record
\* written.
C7_Witness ==
    \E a, b \in DOMAIN lanes :
       /\ lanes[a].status = "failed"
       /\ Len(lanes[a].run_configs) = 2
       /\ Len(lanes[a].swept) = 1
       /\ lanes[a].written = <<>>
       /\ lanes[b].status = "failed"
       /\ Len(lanes[b].swept) = 2
       /\ Len(lanes[b].written) = 1

\* C8: the jobs are awaited in launch order; the error of
\* distribute_over_gpus names the first failed job in launch order and is
\* chained from that job's error; the function returns normally only when
\* no job failed; and it raises only after every submitted job has run to
\* its end (none is left pending or cut short).
C8_FirstFailureInLaunchOrder ==
    /\ dog.pc = "await" => \A h \in GpuLaneIds : h <= dog.k => lanes[h].status = "done"
    /\ \A e \in Elems(dog.err) :
          e.kind = "Exception" =>
             /\ e.job \in GpuLaneIds
             /\ lanes[e.job].status = "failed"
             /\ e.cause = lanes[e.job].exc
             /\ \A h \in GpuLaneIds : h < e.job => lanes[h].status = "done"
    /\ dog.pc = "returned" => \A j \in GpuLaneIds : lanes[j].status = "done"
    /\ dog.pc = "raised" =>
          /\ \A j \in GpuLaneIds : Finished(lanes[j])
          /\ (\E j \in GpuLaneIds : lanes[j].status = "failed") =>
                dog.err[1].kind = "Exception"

\* C8 witness: job 1 failed, its error was raised, and job 2 still ran to
\* its end and wrote its record.
C8_Witness ==
    /\ dog.pc = "raised"
    /\ dog.err[1].job = 1
    /\ 2 \in GpuLaneIds
    /\ lanes[2].status = "done"
    /\ Len(lanes[2].written) >= 1

\* C9: get_single_model_metrics is never invoked for a fixed-resolution
\* family at a non-canonical resolution, whose record is empty; and every
\* invocation for a fixed-resolution family has export disabled and never
\* runs the export block.
C9_FixedResolutionSkip ==
    \A j \in DOMAIN lanes :
       LET lane == lanes[j]
           recs == lane.written \o lane.res
           executed == SelectSeq(lane.swept, LAMBDA cfg : ~SkipCase(cfg))
       IN  /\ Len(lane.runs) = Len(executed)
           /\ \A k \in 1..Len(lane.runs) :
                 LET run == lane.runs[k]
                 IN  /\ run.run_config = executed[k]
                     /\ run.run_config.model_name \in {"patchcore", "cflow"} =>
                           /\ ~run.openvino_metrics
                           /\ "export" \notin Elems(run.ran)
           /\ \A k \in 1..Len(recs) : SkipCase(lane.swept[k]) => recs[k] = <<>>

\* C9 witness: export was requested; a GPU lane ran a fixed-resolution
\* family at (224, 224) without export and skipped it at (256, 256).
C9_Witness ==
    \E j \in GpuLaneIds :
       /\ lanes[j].compute_openvino
       /\ Len(lanes[j].written) = 2
       /\ lanes[j].written[1] # <<>>
       /\ lanes[j].written[2] = <<>>
       /\ Len(lanes[j].runs) = 1
       /\ lanes[j].runs[1].run_config.model_name = "patchcore"

CpuOnlyCompleted ==
    /\ config.hardware = {"cpu"}
    /\ dist.pc \in {"upload", "returned", "finished"}

\* C10, as stated: a completed sweep with hardware = {cpu} ran one lane in
\* the caller's process and wrote exactly n records in generation order,
\* each with device = "cpu".
C10_AllRecordsCpu ==
    CpuOnlyCompleted =>
        /\ DOMAIN lanes = {0}
        /\ lanes[0].proc = Main
        /\ Len(lanes[0].written) = Len(Generated)
        /\ \A k \in 1..Len(Generated) :
              /\ lanes[0].written[k] # <<>>
              /\ lanes[0].written[k].device = "cpu"
              /\ RecordOf(lanes[0].written[k], Generated[k])

\* C10, amended: a sweep with hardware = {cpu} that completes without error
\* ran one lane in the caller's process and made exactly n writes in
\* generation order; the record of every run configuration that is not
\* skipped has device = "cpu", and the record of a skipped one (fixed
\* resolution family, non-canonical resolution) is empty, without a device.
C10_CpuRecordsInOrder ==
    CpuOnlyCompleted =>
        /\ DOMAIN lanes = {0}
        /\ lanes[0].proc = Main
        /\ Len(lanes[0].written) = Len(Generated)
        /\ \A k \in 1..Len(Generated) :
              /\ RecordOf(lanes[0].written[k], Generated[k])
              /\ IF SkipCase(Generated[k])
                 THEN lanes[0].written[k] = <<>>
                 ELSE lanes[0].written[k].device = "cpu"

\* C10 witness: the stated case, two run configurations and two records
\* with device = "cpu".
C10_Witness ==
    /\ CpuOnlyCompleted
    /\ dist.pc = "finished"
    /\ Len(Generated) = 2
    /\ Len(lanes[0].written) = 2
    /\ lanes[0].written[1] # <<>>
    /\ lanes[0].written[2] # <<>>

\* The run configurations of s that are not skipped, and the records of s
\* that are not empty.
Executed(s) == SelectSeq(s, LAMBDA cfg : ~SkipCase(cfg))
NonEmptyRecords(s) == SelectSeq(s, LAMBDA rec : rec # <<>>)

\* C11, as stated: the number of writes of a lane equals the number of its
\* run configurations handled so far that are not skipped; a skipped run
\* configuration causes no write.
C11_WritesOnlyExecuted ==
    \A j \in DOMAIN lanes :
       Len(lanes[j].written) =
          Len(Executed(SubSeq(lanes[j].run_configs, 1, lanes[j].i)))

\* C11, amended: every run configuration a lane has handled caused exactly
\* one write_metrics call, in order: with the record of the run when it
\* was executed, with the empty record when it was skipped.  The number of
\* writes equals the number of run configurations handled, and the number
\* of non-empty records written equals the number of those not skipped.
C11_OneWritePerRunConfig ==
    \A j \in DOMAIN lanes :
       LET lane == lanes[j]
           handled == SubSeq(lane.run_configs, 1, lane.i)
       IN  /\ Len(lane.written) = lane.i
           /\ lane.status = "done" => lane.i = Len(lane.run_configs)
           /\ \A k \in 1..lane.i : RecordOf(lane.written[k], handled[k])
           /\ Len(NonEmptyRecords(lane.written)) = Len(Executed(handled))

\* C11 witness: a lane that returned after two run configurations, the
\* first executed and the second skipped, has made two writes, the second
\* of them with the empty record.
C11_Witness ==
    \E j \in DOMAIN lanes :
       /\ lanes[j].status = "done"
       /\ Len(lanes[j].run_configs) = 2
       /\ ~SkipCase(lanes[j].run_configs[1])
       /\ SkipCase(lanes[j].run_configs[2])
       /\ Len(lanes[j].written) = 2
       /\ lanes[j].written[1] # <<>>
       /\ lanes[j].written[2] = <<>>

\* gpu is among the requested hardware and torch reports no GPU.
GpuUnavailableCase == "gpu" \in config.hardware /\ device_count = 0
DistributeReturned == dist.pc \in {"returned", "finished"}
PublishExpected == IF "wandb" \in config.writer THEN 1 ELSE 0

\* C12: when gpu is requested and no GPU is available, distribute warns,
\* creates no lane and starts no distribute_over_gpus (so nothing is run
\* or written), raises no error, and returns after the upload, which it
\* performs if and only if wandb is among the writers.  The warning is
\* given in no other case.
C12_GpuUnavailable ==
    /\ dist.warned => GpuUnavailableCase
    /\ GpuUnavailableCase =>
          /\ lanes = <<>>
          /\ dog.pc = "idle"
          /\ \A p \in Procs : console[p] = <<>> /\ stdout[p] = "orig"
          /\ dist.pc \in {"start", "upload", "returned", "finished"}
          /\ dist.err = <<>>
          /\ dist.pc # "start" => dist.warned
          /\ DistributeReturned => uploads = PublishExpected

\* C12 witness: gpu requested, no GPU, a non-empty grid and wandb among
\* the writers; distribute has warned and returned after one upload.
C12_Witness ==
    /\ GpuUnavailableCase
    /\ Len(Generated) >= 1
    /\ "wandb" \in config.writer
    /\ dist.warned
    /\ dist.pc = "finished"
    /\ uploads = 1
    /\ lanes = <<>>

\* C13: there is at most one upload; it has happened exactly when
\* distribute has returned and wandb is among the writers, and then every
\* lane that was created has returned and distribute_over_gpus, if it was
\* started, has returned; there is no upload when an error leaves
\* distribute; the closing banner is printed only after distribute has
\* returned, hence after the upload.
C13_PublishOnce ==
    /\ uploads <= 1
    /\ uploads = 1 =>
          /\ "wandb" \in config.writer
          /\ DistributeReturned
          /\ \A j \in DOMAIN lanes : lanes[j].status = "done"
          /\ dog.pc \in {"idle", "returned"}
    /\ DistributeReturned => uploads = PublishExpected
    /\ (dist.err # <<>> \/ dist.pc \in {"shutdown", "raised"}) =>
          /\ uploads = 0
          /\ dist.banner = <<"started">>
    /\ dist.banner # <<"started">> =>
          /\ dist.banner = <<"started", "finished">>
          /\ dist.pc = "finished"
          /\ uploads = PublishExpected

\* C13 witness: cpu and gpu with two GPUs and wandb; the CPU lane and both
\* GPU lanes have returned, one upload was made and the closing banner is
\* printed.
C13_Witness ==
    /\ "wandb" \in config.writer
    /\ DOMAIN lanes = {0, 1, 2}
    /\ \A j \in DOMAIN lanes : lanes[j].status = "done" /\ lanes[j].written # <<>>
    /\ uploads = 1
    /\ dist.banner = <<"started", "finished">>

\* The records lane j has got back from sweep so far, written or not yet.
Records(j) == lanes[j].written \o lanes[j].res
ExportFamily(rec) == rec.model_name \notin {"patchcore", "cflow"}

\* C14, as stated: on every lane, the CPU lane included, the record of an
\* executed run configuration outside the fixed-resolution families has a
\* measured export throughput if compute_openvino is set and NaN if not.
C14_ExportOnEveryLane ==
    \A j \in DOMAIN lanes :
       \A k \in 1..Len(Records(j)) :
          LET rec == Records(j)[k]
          IN  (rec # <<>> /\ ExportFamily(rec)) =>
                 rec.openvino_throughput =
                    IF config.compute_openvino THEN "measured" ELSE "nan"

\* C14, amended: on a GPU lane the record of an executed run configuration
\* outside the fixed-resolution families has a measured export throughput
\* if compute_openvino is set and NaN if not; on the CPU lane, and for the
\* fixed-resolution families on every lane, it is NaN whatever
\* compute_openvino says, and the export block is not run.
C14_ExportOnGpuLanesOnly ==
    \A j \in DOMAIN lanes :
       /\ \A k \in 1..Len(Records(j)) :
             LET rec == Records(j)[k]
             IN  rec # <<>> =>
                    rec.openvino_throughput =
                       IF j # 0 /\ ExportFamily(rec) /\ config.compute_openvino
                       THEN "measured" ELSE "nan"
       /\ \A k \in 1..Len(lanes[j].runs) :
             LET run == lanes[j].runs[k]
             IN  /\ run.openvino_metrics =
                       (j # 0 /\ ExportFamily(run.run_config)
                               /\ config.compute_openvino)
                 /\ ~run.openvino_metrics => "export" \notin Elems(run.ran)

\* C14 witness: compute_openvino is set; the CPU lane has written a padim
\* record with NaN and a GPU lane a padim record with a measured value.
C14_Witness ==
    /\ config.compute_openvino
    /\ 0 \in DOMAIN lanes
    /\ lanes[0].written # <<>>
    /\ lanes[0].written[1] # <<>>
    /\ lanes[0].written[1].model_name = "padim"
    /\ lanes[0].written[1].openvino_throughput = "nan"
    /\ \E j \in GpuLaneIds :
          /\ lanes[j].written # <<>>
          /\ lanes[j].written[1] # <<>>
          /\ lanes[j].written[1].model_name = "padim"
          /\ lanes[j].written[1].openvino_throughput = "measured"

\* The index of x in the duplicate-free list s.
IndexIn(s, x) == CHOOSE i \in 1..Len(s) : s[i] = x
\* The position of a run configuration in the grid, one index per dimension.
GridPos(grid, cfg) ==
    <<IndexIn(grid.model_name, cfg.model_name),
      IndexIn(grid.input_size, cfg.input_size),
      IndexIn(grid.category, cfg.category)>>
LexLess(a, b) ==
    \/ a[1] < b[1]
    \/ a[1] = b[1] /\ a[2] < b[2]
    \/ a[1] = b[1] /\ a[2] = b[2] /\ a[3] < b[3]
\* s is the cartesian product of the candidate lists of grid: as many
\* elements as the product of the lengths, every combination of candidates
\* and nothing else, in the order of the candidate lists (first dimension
\* outermost).
IsProductOf(s, grid) ==
    /\ Len(s) = Len(grid.model_name) * Len(grid.input_size) * Len(grid.category)
    /\ Elems(s) = [model_name : Elems(grid.model_name),
                   input_size : Elems(grid.input_size),
                   category   : Elems(grid.category)]
    /\ \A a, b \in 1..Len(s) :
          a < b => LexLess(GridPos(grid, s[a]), GridPos(grid, s[b]))
DogStarted == dog.pc \notin {"idle", "pending"}

C15_ProductEnumerated ==
    /\ 0 \in DOMAIN lanes => IsProductOf(lanes[0].run_configs, config.grid_search)
    /\ DogStarted => IsProductOf(dog.run_configs, config.grid_search)
    /\ (0 \in DOMAIN lanes /\ DogStarted) => lanes[0].run_configs = dog.run_configs
    /\ (/\ DogStarted
        /\ config.grid_search.model_name = <<"padim">>
        /\ config.grid_search.input_size = << <<224, 224>>, <<256, 256>> >>
        /\ config.grid_search.category = <<1>>) =>
          dog.run_configs =
             <<[model_name |-> "padim", input_size |-> <<224, 224>>, category |-> 1],
               [model_name |-> "padim", input_size |-> <<256, 256>>, category |-> 1]>>

C15_GridUntouched == config' = config

C16_CpuLaneStillRuns ==
    (/\ config.hardware = {"cpu", "gpu"}
     /\ device_count = 0
     /\ Len(Generated) >= 1
     /\ DistributeReturned) =>
        /\ 0 \in DOMAIN lanes
        /\ lanes[0].status = "done"
        /\ Len(lanes[0].written) = Len(Generated)

\* C17, as stated: no two GPU lanes are ever run by the same worker
\* process of the pool of distribute_over_gpus.
C17_DedicatedWorker ==
    \A a, b \in GpuLaneIds :
       (a # b /\ lanes[a].proc # <<>> /\ lanes[b].proc # <<>>) =>
          lanes[a].proc # lanes[b].proc

Running(j) == lanes[j].status = "running"

\* C18: a lane has one run configuration in hand at a time, taken up only
\* when the one before it has been run and written; lane j is bound to
\* device j for all its runs (the CPU for lane 0, which is the only CPU
\* lane, and GPU index j - 1, below the device count, for a GPU lane), so
\* the lanes have pairwise distinct devices; and two lanes that run at the
\* same time run in different processes.
C18_OneRunPerDevice ==
    /\ \A j \in DOMAIN lanes :
          LET lane == lanes[j]
          IN  /\ lane.device = j
              /\ j # 0 => (lane.device - 1) \in 0..(device_count - 1)
              /\ Len(lane.written) = lane.i
              /\ Len(lane.swept) \in {lane.i, lane.i + 1}
              /\ Len(lane.res) <= 1
              /\ lane.swept = SubSeq(lane.run_configs, 1, Len(lane.swept))
              /\ \A k \in 1..Len(lane.runs) :
                    /\ lane.runs[k].trainer.accelerator =
                          IF j = 0 THEN "cpu" ELSE "gpu"
                    /\ j # 0 => lane.runs[k].trainer.devices = <<j - 1>>
    /\ \A a, b \in DOMAIN lanes :
          a # b =>
             /\ lanes[a].device # lanes[b].device
             /\ (Running(a) /\ Running(b)) => lanes[a].proc # lanes[b].proc

\* C18 witness: the CPU lane and two GPU lanes run at the same time, each
\* with a run on its own device behind it and the record not yet written.
C18_Witness ==
    /\ DOMAIN lanes = {0, 1, 2}
    /\ \A j \in DOMAIN lanes :
          /\ Running(j)
          /\ Len(lanes[j].runs) = 1
          /\ lanes[j].res # <<>>
    /\ lanes[1].runs[1].trainer.devices = <<0>>
    /\ lanes[2].runs[1].trainer.devices = <<1>>

\* C19: every invocation of get_single_model_metrics by a lane with device
\* argument 0 has accelerator "cpu" and its record the label "cpu"; with
\* device argument k > 0 it has accelerator "gpu" and the device list
\* <<k - 1>>, and its record the label "gpu"; the trainer configuration has
\* the fields of the base configuration and no others, and each of
\* num_processes, gpus, ipus, tpu_cores that is present is None.  The job
\* with index i of distribute_over_gpus (lane i + 1) runs on GPU index i.
C19_DeviceEncoding ==
    \A j \in DOMAIN lanes :
       LET lane == lanes[j]
       IN  /\ \A k \in 1..Len(lane.runs) :
                 LET trainer == lane.runs[k].trainer
                 IN  /\ IF lane.device = 0
                        THEN trainer.accelerator = "cpu"
                        ELSE /\ trainer.accelerator = "gpu"
                             /\ trainer.devices = <<lane.device - 1>>
                     /\ j # 0 => trainer.devices = <<j - 1>>
                     /\ DOMAIN trainer =
                           DOMAIN BaseTrainer(lane.runs[k].run_config.model_name)
                     /\ \A key \in {"num_processes", "gpus", "ipus", "tpu_cores"} :
                           key \in DOMAIN trainer => trainer[key] = "None"
           /\ \A k \in 1..Len(Records(j)) :
                 Records(j)[k] # <<>> =>
                    Records(j)[k].device = IF lane.device = 0 THEN "cpu" ELSE "gpu"

\* C19 witness: the CPU lane has run a configuration whose base trainer
\* section has legacy flags, and the second GPU lane has run one on GPU
\* index 1; both have their records.
C19_Witness ==
    /\ DOMAIN lanes = {0, 1, 2}
    /\ lanes[0].runs # <<>>
    /\ lanes[0].runs[1].trainer.accelerator = "cpu"
    /\ "gpus" \in DOMAIN lanes[0].runs[1].trainer
    /\ lanes[0].written # <<>>
    /\ lanes[0].written[1] # <<>>
    /\ lanes[2].runs # <<>>
    /\ lanes[2].runs[1].trainer.devices = <<1>>
    /\ "num_processes" \in DOMAIN lanes[2].runs[1].trainer
    /\ lanes[2].written # <<>>
    /\ lanes[2].written[1] # <<>>

====
